---------------------------- MODULE Spec2Model ----------------------------
(***************************************************************************)
(* The SPL token instruction codec of pyserum: the encoders and decoders   *)
(* of spl/token/instructions.py and the layout registry and decoder stubs  *)
(* of solana/token_program.py.                                             *)
(*                                                                         *)
(* Every encoder and decoder is a pure function, written here as an        *)
(* operator that follows the Python statement by statement; a raised       *)
(* exception is a result whose status is the exception's kind.  The state  *)
(* machine calls the functions on bounded inputs: an encoder is called on  *)
(* a parameter structure, an instruction arrives from the wire, and a      *)
(* decoder is called on the instruction at hand.                           *)
(*                                                                         *)
(* Representation.  A PublicKey is the integer its 32 bytes spell in       *)
(* big-endian order; None is a value outside the keys.  A Python int that  *)
(* must fit 64 bits is a tuple of four 16-bit limbs, least significant     *)
(* first (TLC's integers are 32 bits wide), so 2^64-1 is                   *)
(* <<65535,65535,65535,65535>>.  A bytes object is a sequence of 0..255.   *)
(***************************************************************************)
EXTENDS Integers, Sequences, FiniteSets, TLC

VARIABLES
    called,    \* name of the function called last ("none" at start)
    given,     \* parameter structure handed to the last encoder call
    instr,     \* the instruction at hand: built by an encoder or received
    origin,    \* name of the encoder that built it, "wire", or "none"
    outcome,   \* what the last call returned or raised
    caller,    \* concurrent calls: the objects the caller hands to them
    heap,      \* concurrent calls: the content of every list object
    threads    \* concurrent calls: the function and position of each call

\* the variables of the calls made one at a time
call_vars == <<called, given, instr, origin, outcome>>

\* the variables of the calls made concurrently
thread_vars == <<caller, heap, threads>>

vars == <<called, given, instr, origin, outcome, caller, heap, threads>>

---------------------------------------------------------------------------
(* Bounds of the model *)

\* longest signer list handed to an encoder
MaxSigners == 2

\* longest account-reference list of a received instruction
MaxKeys == 4

---------------------------------------------------------------------------
(* Instruction indices: solana/token_program.py *)

_INITIALIZE_MINT == 0
_INITIALIZE_ACCOUNT == 1
_INITIALIZE_MULTISIG == 2
_TRANSFER == 3
_APPROVE == 4
_REVOKE == 5
_SET_AUTHORITY == 6
_MINT_TO == 7
_BURN == 8
_CLOSE_ACCOUNT == 9
_FREEZE_ACCOUNT == 10
_THAW_ACCOUNT == 11
_TRANSFER2 == 12
_APPROVE2 == 13
_MINT_TO2 == 14
_BURN2 == 15

---------------------------------------------------------------------------
(* Values *)

\* Python's None, a value no PublicKey equals
None == -1

\* the rent sysvar's address (an imported constant)
SYSVAR_RENT_PUBKEY == 6

\* width of a public key on the wire
PUBLIC_KEY_LENGTH == 32

\* the addresses the callers use; 0 is PublicKey(0), the all-zero key
Keys == {0, 1, 255}

ProgramIds == {7, 8}

\* amounts as four 16-bit limbs, least significant first:
\* 0, 1, 513, 65536 and 2^64-1
Amounts ==
    { <<0, 0, 0, 0>>, <<1, 0, 0, 0>>, <<513, 0, 0, 0>>, <<0, 1, 0, 0>>,
      <<65535, 65535, 65535, 65535>> }

Decimals == {0, 1, 255}

\* result of a call that returned v
Ok(v) == [status |-> "ok", value |-> v]

\* result of a call that raised exception e carrying info
Raise(e, info) == [status |-> e, value |-> info]

NoValue == [kind |-> "none"]

AccountMeta(pubkey, is_signer, is_writable) ==
    [pubkey |-> pubkey, is_signer |-> is_signer, is_writable |-> is_writable]

TransactionInstruction(keys, program_id, data) ==
    [keys |-> keys, program_id |-> program_id, data |-> data]

\* all sequences over S of length at most n
SeqUpTo(S, n) == UNION { [1..k -> S] : k \in 0..n }

\* Python's seq[start:] for a possibly negative start
PySliceFrom(seq, start) ==
    LET n == Len(seq)
        lo == IF start < 0
              THEN (IF n + start < 0 THEN 0 ELSE n + start)
              ELSE (IF start > n THEN n ELSE start)
    IN  SubSeq(seq, lo + 1, n)

\* [meta.pubkey for meta in metas]
Pubkeys(metas) == [i \in 1..Len(metas) |-> metas[i].pubkey]

---------------------------------------------------------------------------
(* Wire primitives of the layout *)

RECURSIVE IntToBytesBE(_, _)
\* the n-byte big-endian spelling of v
IntToBytesBE(v, n) ==
    IF n = 0 THEN << >> ELSE Append(IntToBytesBE(v \div 256, n - 1), v % 256)

RECURSIVE BytesToIntBE(_)
\* the integer a byte string spells in big-endian order
BytesToIntBE(b) ==
    IF Len(b) = 0 THEN 0
    ELSE 256 * BytesToIntBE(SubSeq(b, 1, Len(b) - 1)) + b[Len(b)]

RECURSIVE IntToBytesLE(_, _)
\* the n-byte little-endian spelling of v
IntToBytesLE(v, n) ==
    IF n = 0 THEN << >> ELSE <<v % 256>> \o IntToBytesLE(v \div 256, n - 1)

RECURSIVE BytesToIntLE(_)
\* the integer a byte string spells in little-endian order
BytesToIntLE(b) ==
    IF Len(b) = 0 THEN 0 ELSE b[1] + 256 * BytesToIntLE(Tail(b))

\* bytes(PublicKey): always PUBLIC_KEY_LENGTH bytes
PublicKeyBytes(key) == IntToBytesBE(key, PUBLIC_KEY_LENGTH)

\* PublicKey(bytes)
PublicKey(b) == BytesToIntBE(b)

\* an unsigned 64-bit integer, little-endian: two bytes per 16-bit limb
U64Bytes(a) ==
    <<a[1] % 256, a[1] \div 256, a[2] % 256, a[2] \div 256,
      a[3] % 256, a[3] \div 256, a[4] % 256, a[4] \div 256>>

\* the limbs of eight little-endian bytes
U64Parse(b) ==
    <<b[1] + 256 * b[2], b[3] + 256 * b[4],
      b[5] + 256 * b[6], b[7] + 256 * b[8]>>

\* width of the option flag that precedes an optional public key
OPTION_FLAG_WIDTH == 4

\* the discriminants of InstructionType
InstructionType ==
    [ InitializeMint |-> 0, InitializeAccount |-> 1, InitializeMultisig |-> 2,
      Transfer |-> 3, Approve |-> 4, Revoke |-> 5, SetAuthority |-> 6,
      MintTo |-> 7, Burn |-> 8, CloseAccount |-> 9, FreezeAccount |-> 10,
      ThawAccount |-> 11, Transfer2 |-> 12, Approve2 |-> 13, MintTo2 |-> 14,
      Burn2 |-> 15 ]

\* number of bytes the fields of kind t occupy after the discriminant
LayoutWidth(t) ==
    IF t = InstructionType.InitializeMint
    THEN 1 + PUBLIC_KEY_LENGTH + OPTION_FLAG_WIDTH + PUBLIC_KEY_LENGTH
    ELSE IF t = InstructionType.InitializeMultisig THEN 1
    ELSE IF t \in { InstructionType.Transfer, InstructionType.Approve,
                    InstructionType.MintTo, InstructionType.Burn } THEN 8
    ELSE IF t = InstructionType.SetAuthority
    THEN 4 + OPTION_FLAG_WIDTH + PUBLIC_KEY_LENGTH
    ELSE IF t \in { InstructionType.Transfer2, InstructionType.Approve2,
                    InstructionType.MintTo2, InstructionType.Burn2 } THEN 9
    ELSE 0

\* INSTRUCTIONS_LAYOUT.build: the discriminant byte, then the kind's fields
INSTRUCTIONS_LAYOUT_build(instruction_type, args) ==
    <<instruction_type>> \o
    ( IF instruction_type = InstructionType.InitializeMint
      THEN <<args.decimals>> \o args.mint_authority
           \o IntToBytesLE(args.freeze_authority_option, OPTION_FLAG_WIDTH)
           \o args.freeze_authority
      ELSE IF instruction_type = InstructionType.InitializeMultisig
      THEN <<args.m>>
      ELSE IF instruction_type = InstructionType.Transfer
      THEN U64Bytes(args.amount)
      ELSE << >> )

\* the fields of kind t read from the bytes that follow the discriminant
ParseArgs(t, b) ==
    IF t = InstructionType.InitializeMint
    THEN [ decimals |-> b[1],
           mint_authority |-> SubSeq(b, 2, 1 + PUBLIC_KEY_LENGTH),
           freeze_authority_option |->
               BytesToIntLE(SubSeq(b, 2 + PUBLIC_KEY_LENGTH,
                                   1 + PUBLIC_KEY_LENGTH + OPTION_FLAG_WIDTH)),
           freeze_authority |->
               SubSeq(b, 2 + PUBLIC_KEY_LENGTH + OPTION_FLAG_WIDTH,
                      1 + 2 * PUBLIC_KEY_LENGTH + OPTION_FLAG_WIDTH) ]
    ELSE IF t = InstructionType.InitializeMultisig
    THEN [ m |-> b[1] ]
    ELSE IF t = InstructionType.Transfer
    THEN [ amount |-> U64Parse(b) ]
    ELSE NoValue

\* INSTRUCTIONS_LAYOUT.parse: reads the discriminant, then the fields of the
\* kind it names; bytes after the fields are not read
INSTRUCTIONS_LAYOUT_parse(data) ==
    IF Len(data) = 0
    THEN Raise("TruncatedInstruction", [needed |-> 1, found |-> 0])
    ELSE IF Len(data) < 1 + LayoutWidth(data[1])
    THEN Raise("TruncatedInstruction",
               [needed |-> 1 + LayoutWidth(data[1]), found |-> Len(data)])
    ELSE Ok([ instruction_type |-> data[1],
              args |-> ParseArgs(data[1], Tail(data)) ])

\* validate_instruction_keys: at least `expected` account references
validate_instruction_keys(instruction, expected) ==
    IF Len(instruction.keys) < expected
    THEN Raise("InvalidAccountCount",
               [found |-> Len(instruction.keys), expected |-> expected])
    ELSE Ok(NoValue)

\* validate_instruction_type: the parsed discriminant is the expected one
validate_instruction_type(parsed_data, expected_type) ==
    IF parsed_data.instruction_type # expected_type
    THEN Raise("WrongInstructionType",
               [expected |-> expected_type,
                actual |-> parsed_data.instruction_type])
    ELSE Ok(NoValue)

---------------------------------------------------------------------------
(* Parameter structures: spl/token/instructions.py *)

InitializeMintParams(decimals, program_id, mint, mint_authority, freeze_authority) ==
    [ decimals |-> decimals, program_id |-> program_id, mint |-> mint,
      mint_authority |-> mint_authority,
      freeze_authority |-> freeze_authority ]

InitializeAccountParams(program_id, account, mint, owner) ==
    [ program_id |-> program_id, account |-> account, mint |-> mint,
      owner |-> owner ]

InitializeMultisigParams(program_id, multisig, signers, m) ==
    [ program_id |-> program_id, multisig |-> multisig, signers |-> signers,
      m |-> m ]

TransferParams(program_id, source, destination, authority, signers, amount) ==
    [ program_id |-> program_id, source |-> source,
      destination |-> destination, authority |-> authority,
      signers |-> signers, amount |-> amount ]

CloseAccountParams(program_id, account, destination, owner, signers) ==
    [ program_id |-> program_id, account |-> account,
      destination |-> destination, owner |-> owner, signers |-> signers ]

\* truth value of an Optional[PublicKey]: a PublicKey object defines neither
\* __bool__ nor __len__, so only None is false
Truthy(x) == x # None

---------------------------------------------------------------------------
(* Decoders: spl/token/instructions.py *)

\* decode_initialize_mint that reads the freeze authority from the slot
\* without looking at the option flag
decode_initialize_mint_ignores_flag(instruction) ==
    LET keys_ok == validate_instruction_keys(instruction, 2)
        parsed_data == INSTRUCTIONS_LAYOUT_parse(instruction.data)
    IN  IF keys_ok.status # "ok" THEN keys_ok
        ELSE IF parsed_data.status # "ok" THEN parsed_data
        ELSE LET type_ok == validate_instruction_type(
                                parsed_data.value,
                                InstructionType.InitializeMint)
                 args == parsed_data.value.args
             IN  IF type_ok.status # "ok" THEN type_ok
                 ELSE Ok(InitializeMintParams(
                        args.decimals,
                        instruction.program_id,
                        instruction.keys[1].pubkey,
                        PublicKey(args.mint_authority),
                        PublicKey(args.freeze_authority)))

\* decode_initialize_mint with the discriminant checked before the key count
decode_initialize_mint_type_first(instruction) ==
    LET keys_ok == validate_instruction_keys(instruction, 2)
        parsed_data == INSTRUCTIONS_LAYOUT_parse(instruction.data)
    IN  IF parsed_data.status # "ok" THEN parsed_data
        ELSE LET type_ok == validate_instruction_type(
                                parsed_data.value,
                                InstructionType.InitializeMint)
                 args == parsed_data.value.args
             IN  IF type_ok.status # "ok" THEN type_ok
                 ELSE IF keys_ok.status # "ok" THEN keys_ok
                 ELSE Ok(InitializeMintParams(
                        args.decimals,
                        instruction.program_id,
                        instruction.keys[1].pubkey,
                        PublicKey(args.mint_authority),
                        IF args.freeze_authority_option # 0
                        THEN PublicKey(args.freeze_authority)
                        ELSE None))

decode_initialize_mint(instruction) ==
    LET keys_ok == validate_instruction_keys(instruction, 2)
        parsed_data == INSTRUCTIONS_LAYOUT_parse(instruction.data)
    IN  IF keys_ok.status # "ok" THEN keys_ok
        ELSE IF parsed_data.status # "ok" THEN parsed_data
        ELSE LET type_ok == validate_instruction_type(
                                parsed_data.value,
                                InstructionType.InitializeMint)
                 args == parsed_data.value.args
             IN  IF type_ok.status # "ok" THEN type_ok
                 ELSE Ok(InitializeMintParams(
                        args.decimals,
                        instruction.program_id,
                        instruction.keys[1].pubkey,
                        PublicKey(args.mint_authority),
                        IF args.freeze_authority_option # 0
                        THEN PublicKey(args.freeze_authority)
                        ELSE None))

\* decode_initialize_account that asks for three account references only
decode_initialize_account_three_keys(instruction) ==
    LET keys_ok == validate_instruction_keys(instruction, 3)
        parsed_data == INSTRUCTIONS_LAYOUT_parse(instruction.data)
    IN  IF keys_ok.status # "ok" THEN keys_ok
        ELSE IF parsed_data.status # "ok" THEN parsed_data
        ELSE LET type_ok == validate_instruction_type(
                                parsed_data.value,
                                InstructionType.InitializeAccount)
             IN  IF type_ok.status # "ok" THEN type_ok
                 ELSE Ok(InitializeAccountParams(
                        instruction.program_id,
                        instruction.keys[1].pubkey,
                        instruction.keys[2].pubkey,
                        instruction.keys[3].pubkey))

decode_initialize_account(instruction) ==
    LET keys_ok == validate_instruction_keys(instruction, 4)
        parsed_data == INSTRUCTIONS_LAYOUT_parse(instruction.data)
    IN  IF keys_ok.status # "ok" THEN keys_ok
        ELSE IF parsed_data.status # "ok" THEN parsed_data
        ELSE LET type_ok == validate_instruction_type(
                                parsed_data.value,
                                InstructionType.InitializeAccount)
             IN  IF type_ok.status # "ok" THEN type_ok
                 ELSE Ok(InitializeAccountParams(
                        instruction.program_id,
                        instruction.keys[1].pubkey,
                        instruction.keys[2].pubkey,
                        instruction.keys[3].pubkey))

decode_initialize_multisig(instruction) ==
    LET parsed_data == INSTRUCTIONS_LAYOUT_parse(instruction.data)
    IN  IF parsed_data.status # "ok" THEN parsed_data
        ELSE LET type_ok == validate_instruction_type(
                                parsed_data.value,
                                InstructionType.InitializeMultisig)
             IN  IF type_ok.status # "ok" THEN type_ok
                 ELSE LET num_signers == parsed_data.value.args.m
                          keys_ok == validate_instruction_keys(
                                         instruction, 2 + num_signers)
                      IN  IF keys_ok.status # "ok" THEN keys_ok
                          ELSE Ok(InitializeMultisigParams(
                                 instruction.program_id,
                                 instruction.keys[1].pubkey,
                                 Pubkeys(PySliceFrom(instruction.keys,
                                                     0 - num_signers)),
                                 num_signers))

\* decode_transfer that collects the signers from the authority's position on
decode_transfer_signers_from_authority(instruction) ==
    LET keys_ok == validate_instruction_keys(instruction, 3)
        parsed_data == INSTRUCTIONS_LAYOUT_parse(instruction.data)
    IN  IF keys_ok.status # "ok" THEN keys_ok
        ELSE IF parsed_data.status # "ok" THEN parsed_data
        ELSE LET type_ok == validate_instruction_type(
                                parsed_data.value, InstructionType.Transfer)
             IN  IF type_ok.status # "ok" THEN type_ok
                 ELSE Ok(TransferParams(
                        instruction.program_id,
                        instruction.keys[1].pubkey,
                        instruction.keys[2].pubkey,
                        instruction.keys[3].pubkey,
                        Pubkeys(PySliceFrom(instruction.keys, 2)),
                        parsed_data.value.args.amount))

decode_transfer(instruction) ==
    LET keys_ok == validate_instruction_keys(instruction, 3)
        parsed_data == INSTRUCTIONS_LAYOUT_parse(instruction.data)
    IN  IF keys_ok.status # "ok" THEN keys_ok
        ELSE IF parsed_data.status # "ok" THEN parsed_data
        ELSE LET type_ok == validate_instruction_type(
                                parsed_data.value, InstructionType.Transfer)
             IN  IF type_ok.status # "ok" THEN type_ok
                 ELSE Ok(TransferParams(
                        instruction.program_id,
                        instruction.keys[1].pubkey,
                        instruction.keys[2].pubkey,
                        instruction.keys[3].pubkey,
                        Pubkeys(PySliceFrom(instruction.keys, 3)),
                        parsed_data.value.args.amount))

\* decode_close_account that parses the data before it counts the keys
decode_close_account_parse_first(instruction) ==
    LET keys_ok == validate_instruction_keys(instruction, 3)
        parsed_data == INSTRUCTIONS_LAYOUT_parse(instruction.data)
    IN  IF parsed_data.status # "ok" THEN parsed_data
        ELSE IF keys_ok.status # "ok" THEN keys_ok
        ELSE LET type_ok == validate_instruction_type(
                                parsed_data.value,
                                InstructionType.CloseAccount)
             IN  IF type_ok.status # "ok" THEN type_ok
                 ELSE Ok(CloseAccountParams(
                        instruction.program_id,
                        instruction.keys[1].pubkey,
                        instruction.keys[2].pubkey,
                        instruction.keys[3].pubkey,
                        Pubkeys(PySliceFrom(instruction.keys, 3))))

decode_close_account(instruction) ==
    LET keys_ok == validate_instruction_keys(instruction, 3)
        parsed_data == INSTRUCTIONS_LAYOUT_parse(instruction.data)
    IN  IF keys_ok.status # "ok" THEN keys_ok
        ELSE IF parsed_data.status # "ok" THEN parsed_data
        ELSE LET type_ok == validate_instruction_type(
                                parsed_data.value,
                                InstructionType.CloseAccount)
             IN  IF type_ok.status # "ok" THEN type_ok
                 ELSE Ok(CloseAccountParams(
                        instruction.program_id,
                        instruction.keys[1].pubkey,
                        instruction.keys[2].pubkey,
                        instruction.keys[3].pubkey,
                        Pubkeys(PySliceFrom(instruction.keys, 3))))

NotImplementedError(msg) == Raise("NotImplementedError", [msg |-> msg])

decode_approve(instruction) ==
    NotImplementedError("decode_token_approve not implemented")

decode_revoke(instruction) ==
    NotImplementedError("decode_token_revoke not implemented")

decode_set_authority(instruction) ==
    NotImplementedError("decode_set_authority not implemented")

decode_mint_to(instruction) ==
    NotImplementedError("decode_mint_to not implemented")

decode_burn(instruction) ==
    NotImplementedError("decode_burn not implemented")

decode_thaw_account(instruction) ==
    NotImplementedError("decode_thaw_account not implemented")

decode_transfer2(instruction) ==
    NotImplementedError("decode_transfer2 not implemented")

decode_approve2(instruction) ==
    NotImplementedError("decode_approve2 not implemented")

decode_mint_to2(instruction) ==
    NotImplementedError("decode_mint_to2 not implemented")

decode_burn2(instruction) ==
    NotImplementedError("decode_burn2 not implemented")

---------------------------------------------------------------------------
(* Encoders: spl/token/instructions.py *)

\* __add_signers that marks the authority as a signer in both branches
__add_signers_authority_always_signs(keys, owner, signers) ==
    IF Len(signers) # 0
    THEN Append(keys, AccountMeta(owner, TRUE, FALSE))
         \o [i \in 1..Len(signers) |-> AccountMeta(signers[i], TRUE, FALSE)]
    ELSE Append(keys, AccountMeta(owner, TRUE, FALSE))

\* the list `keys` as __add_signers leaves it (the Python appends in place)
__add_signers(keys, owner, signers) ==
    IF Len(signers) # 0
    THEN Append(keys, AccountMeta(owner, FALSE, FALSE))
         \o [i \in 1..Len(signers) |-> AccountMeta(signers[i], TRUE, FALSE)]
    ELSE Append(keys, AccountMeta(owner, TRUE, FALSE))

\* initialize_mint that sets the option flag whether or not a freeze
\* authority is given
initialize_mint_flag_always_set(params) ==
    LET freeze_authority == IF Truthy(params.freeze_authority)
                            THEN params.freeze_authority ELSE 0
        opt == 1
        data == INSTRUCTIONS_LAYOUT_build(
                    InstructionType.InitializeMint,
                    [ decimals |-> params.decimals,
                      mint_authority |-> PublicKeyBytes(params.mint_authority),
                      freeze_authority_option |-> opt,
                      freeze_authority |-> PublicKeyBytes(freeze_authority) ])
    IN  Ok(TransactionInstruction(
            << AccountMeta(params.mint, FALSE, TRUE),
               AccountMeta(SYSVAR_RENT_PUBKEY, FALSE, FALSE) >>,
            params.program_id,
            data))

initialize_mint(params) ==
    LET freeze_authority == IF Truthy(params.freeze_authority)
                            THEN params.freeze_authority ELSE 0
        opt == IF Truthy(params.freeze_authority) THEN 1 ELSE 0
        data == INSTRUCTIONS_LAYOUT_build(
                    InstructionType.InitializeMint,
                    [ decimals |-> params.decimals,
                      mint_authority |-> PublicKeyBytes(params.mint_authority),
                      freeze_authority_option |-> opt,
                      freeze_authority |-> PublicKeyBytes(freeze_authority) ])
    IN  Ok(TransactionInstruction(
            << AccountMeta(params.mint, FALSE, TRUE),
               AccountMeta(SYSVAR_RENT_PUBKEY, FALSE, FALSE) >>,
            params.program_id,
            data))

initialize_account(params) ==
    LET data == INSTRUCTIONS_LAYOUT_build(InstructionType.InitializeAccount,
                                          NoValue)
    IN  Ok(TransactionInstruction(
            << AccountMeta(params.account, FALSE, TRUE),
               AccountMeta(params.mint, FALSE, FALSE),
               AccountMeta(params.owner, FALSE, FALSE),
               AccountMeta(SYSVAR_RENT_PUBKEY, FALSE, FALSE) >>,
            params.program_id,
            data))

initialize_multisig(params) ==
    LET data == INSTRUCTIONS_LAYOUT_build(InstructionType.InitializeMultisig,
                                          [m |-> params.m])
        keys == << AccountMeta(params.multisig, FALSE, TRUE),
                   AccountMeta(SYSVAR_RENT_PUBKEY, FALSE, FALSE) >>
                \o [i \in 1..Len(params.signers) |->
                        AccountMeta(params.signers[i], FALSE, FALSE)]
    IN  Ok(TransactionInstruction(keys, params.program_id, data))

\* transfer that refuses a zero-value source address
transfer_rejects_zero_source(params) ==
    LET data == INSTRUCTIONS_LAYOUT_build(InstructionType.Transfer,
                                          [amount |-> params.amount])
        keys == << AccountMeta(params.source, FALSE, TRUE),
                   AccountMeta(params.destination, FALSE, FALSE) >>
    IN  IF params.source = 0
        THEN Raise("InvalidParameters", [msg |-> "source"])
        ELSE Ok(TransactionInstruction(
                 __add_signers(keys, params.authority, params.signers),
                 params.program_id,
                 data))

transfer(params) ==
    LET data == INSTRUCTIONS_LAYOUT_build(InstructionType.Transfer,
                                          [amount |-> params.amount])
        keys == << AccountMeta(params.source, FALSE, TRUE),
                   AccountMeta(params.destination, FALSE, FALSE) >>
    IN  Ok(TransactionInstruction(
            __add_signers(keys, params.authority, params.signers),
            params.program_id,
            data))

\* close_account that builds its data with the Revoke discriminant
close_account_as_revoke(params) ==
    LET data == INSTRUCTIONS_LAYOUT_build(InstructionType.Revoke, NoValue)
        keys == << AccountMeta(params.account, FALSE, TRUE),
                   AccountMeta(params.destination, FALSE, TRUE) >>
    IN  Ok(TransactionInstruction(
            __add_signers(keys, params.owner, params.signers),
            params.program_id,
            data))

close_account(params) ==
    LET data == INSTRUCTIONS_LAYOUT_build(InstructionType.CloseAccount,
                                          NoValue)
        keys == << AccountMeta(params.account, FALSE, TRUE),
                   AccountMeta(params.destination, FALSE, TRUE) >>
    IN  Ok(TransactionInstruction(
            __add_signers(keys, params.owner, params.signers),
            params.program_id,
            data))

approve(params) == NotImplementedError("approve not implemented")

revoke(params) == NotImplementedError("revoke not implemented")

set_authority(params) == NotImplementedError("set_authority not implemented")

mint_to(params) == NotImplementedError("mint_to not implemented")

burn(params) == NotImplementedError("burn not implemented")

freeze_account(params) ==
    NotImplementedError("freeze_account not implemented")

thaw_account(params) == NotImplementedError("thaw_account not implemented")

transfer2(params) == NotImplementedError("transfer2 not implemented")

approve2(params) == NotImplementedError("approve2 not implemented")

mint_to2(params) == NotImplementedError("mint_to2 not implemented")

burn2(params) == NotImplementedError("burn2 not implemented")

---------------------------------------------------------------------------
(* The layout registry: solana/token_program.py *)

InstructionLayout(idx, fmt) == [idx |-> idx, fmt |-> fmt]

TOKEN_INSTRUCTION_LAYOUTS ==
    << InstructionLayout(_INITIALIZE_MINT, "B32s32s"),
       InstructionLayout(_INITIALIZE_ACCOUNT, ""),
       InstructionLayout(_INITIALIZE_MULTISIG, "B"),
       InstructionLayout(_TRANSFER, "Q"),
       InstructionLayout(_APPROVE, "Q"),
       InstructionLayout(_REVOKE, ""),
       InstructionLayout(_SET_AUTHORITY, "I32s"),
       InstructionLayout(_MINT_TO, "Q"),
       InstructionLayout(_BURN, "Q"),
       InstructionLayout(_CLOSE_ACCOUNT, ""),
       InstructionLayout(_FREEZE_ACCOUNT, ""),
       InstructionLayout(_THAW_ACCOUNT, ""),
       InstructionLayout(_TRANSFER2, "QB"),
       InstructionLayout(_APPROVE2, "QB"),
       InstructionLayout(_MINT_TO2, "QB"),
       InstructionLayout(_BURN2, "QB") >>

\* Python's seq[:stop] for a non-negative stop
PySliceTo(seq, stop) ==
    SubSeq(seq, 1, IF stop > Len(seq) THEN Len(seq) ELSE stop)

\* from_uint8_bytes: the unsigned integer that up to four bytes spell in
\* little-endian order, as two 16-bit limbs <<low, high>> (no bytes: 0)
from_uint8_bytes(uint8) ==
    LET byte(i) == IF i <= Len(uint8) THEN uint8[i] ELSE 0
    IN  << byte(1) + 256 * byte(2), byte(3) + 256 * byte(4) >>

\* decode_instruction_layout that takes a type index of 0 for no index
decode_instruction_layout_rejects_zero(instruction) ==
    LET type_data == PySliceTo(instruction.data, 4)
        type_idx == from_uint8_bytes(type_data)
    IN  IF /\ type_idx[2] = 0
           /\ 0 < type_idx[1]
           /\ type_idx[1] < Len(TOKEN_INSTRUCTION_LAYOUTS)
        THEN Ok(TOKEN_INSTRUCTION_LAYOUTS[type_idx[1] + 1])
        ELSE Raise("ValueError", [msg |-> "unknown transaction instruction"])

decode_instruction_layout(instruction) ==
    LET type_data == PySliceTo(instruction.data, 4)
        type_idx == from_uint8_bytes(type_data)
    IN  IF /\ type_idx[2] = 0
           /\ 0 <= type_idx[1]
           /\ type_idx[1] < Len(TOKEN_INSTRUCTION_LAYOUTS)
        THEN Ok(TOKEN_INSTRUCTION_LAYOUTS[type_idx[1] + 1])
        ELSE Raise("ValueError", [msg |-> "unknown transaction instruction"])

---------------------------------------------------------------------------
(* Decoder stubs: solana/token_program.py *)

\* every decoder of solana/token_program.py has the same body shape:
\* raise NotImplementedError(<its message>)
token_program_decoder_message ==
    [ decode_initialize_mint |-> "decode_initialize_mint not implemented",
      decode_initialize_account |->
          "decode_initialize_account not implemented",
      decode_initialize_multisig |->
          "decode_initialize_multisig not implemented",
      decode_token_transfer |-> "decode_token_transfer not implemented",
      decode_approve |-> "decode_token_approve not implemented",
      decode_revoke |-> "decode_token_revoke not implemented",
      decode_set_authority |-> "decode_set_authority not implemented",
      decode_mint_to |-> "decode_mint_to not implemented",
      decode_burn |-> "decode_burn not implemented",
      decode_close_account |-> "decode_close_account not implemented",
      decode_thaw_account |-> "decode_thaw_account not implemented",
      decode_token_transfer2 |-> "decode_transfer2 not implemented",
      decode_approve2 |-> "decode_approve2 not implemented",
      decode_mint_to2 |-> "decode_mint_to2 not implemented",
      decode_burn2 |-> "decode_burn2 not implemented" ]

\* a call of the function `name` of solana/token_program.py
token_program_call(name, instruction) ==
    IF name \in DOMAIN token_program_decoder_message
    THEN NotImplementedError(token_program_decoder_message[name])
    ELSE Raise("AttributeError", [msg |-> name])

---------------------------------------------------------------------------
(* The functions spl/token/instructions.py defines, looked up by name *)

\* the kinds that have no codec logic in spl/token/instructions.py
UnimplementedKinds ==
    { _APPROVE, _REVOKE, _SET_AUTHORITY, _MINT_TO, _BURN, _FREEZE_ACCOUNT,
      _THAW_ACCOUNT, _TRANSFER2, _APPROVE2, _MINT_TO2, _BURN2 }

\* the name of kind k's encoder; its decoder is decode_<that name>
EncoderName(k) ==
    << "initialize_mint", "initialize_account", "initialize_multisig",
       "transfer", "approve", "revoke", "set_authority", "mint_to", "burn",
       "close_account", "freeze_account", "thaw_account", "transfer2",
       "approve2", "mint_to2", "burn2" >>[k + 1]

DecoderName(k) ==
    << "decode_initialize_mint", "decode_initialize_account",
       "decode_initialize_multisig", "decode_transfer", "decode_approve",
       "decode_revoke", "decode_set_authority", "decode_mint_to",
       "decode_burn", "decode_close_account", "decode_freeze_account",
       "decode_thaw_account", "decode_transfer2", "decode_approve2",
       "decode_mint_to2", "decode_burn2" >>[k + 1]

\* the name of kind k's decoder in solana/token_program.py
TokenProgramDecoderName(k) ==
    IF k = _TRANSFER THEN "decode_token_transfer"
    ELSE IF k = _TRANSFER2 THEN "decode_token_transfer2"
    ELSE DecoderName(k)

\* a call of instructions.<name>(arg); a name the module does not define
\* raises AttributeError
instructions_call(name, arg) ==
    CASE name = "initialize_mint" -> initialize_mint(arg)
      [] name = "initialize_account" -> initialize_account(arg)
      [] name = "initialize_multisig" -> initialize_multisig(arg)
      [] name = "transfer" -> transfer(arg)
      [] name = "approve" -> approve(arg)
      [] name = "revoke" -> revoke(arg)
      [] name = "set_authority" -> set_authority(arg)
      [] name = "mint_to" -> mint_to(arg)
      [] name = "burn" -> burn(arg)
      [] name = "close_account" -> close_account(arg)
      [] name = "freeze_account" -> freeze_account(arg)
      [] name = "thaw_account" -> thaw_account(arg)
      [] name = "transfer2" -> transfer2(arg)
      [] name = "approve2" -> approve2(arg)
      [] name = "mint_to2" -> mint_to2(arg)
      [] name = "burn2" -> burn2(arg)
      [] name = "decode_initialize_mint" -> decode_initialize_mint(arg)
      [] name = "decode_initialize_account" -> decode_initialize_account(arg)
      [] name = "decode_initialize_multisig" ->
             decode_initialize_multisig(arg)
      [] name = "decode_transfer" -> decode_transfer(arg)
      [] name = "decode_approve" -> decode_approve(arg)
      [] name = "decode_revoke" -> decode_revoke(arg)
      [] name = "decode_set_authority" -> decode_set_authority(arg)
      [] name = "decode_mint_to" -> decode_mint_to(arg)
      [] name = "decode_burn" -> decode_burn(arg)
      [] name = "decode_close_account" -> decode_close_account(arg)
      [] name = "decode_thaw_account" -> decode_thaw_account(arg)
      [] name = "decode_transfer2" -> decode_transfer2(arg)
      [] name = "decode_approve2" -> decode_approve2(arg)
      [] name = "decode_mint_to2" -> decode_mint_to2(arg)
      [] name = "decode_burn2" -> decode_burn2(arg)
      [] OTHER -> Raise("AttributeError", [msg |-> name])

---------------------------------------------------------------------------
(* Inputs *)

\* the signer addresses the callers use
SignerKeys == {1, 255}

SignerLists == SeqUpTo(SignerKeys, MaxSigners)

InitializeMintInputs ==
    { InitializeMintParams(d, pid, mint, auth, fz) :
        d \in Decimals, pid \in ProgramIds, mint \in Keys, auth \in Keys,
        fz \in Keys \cup {None} }

InitializeAccountInputs ==
    { InitializeAccountParams(pid, a, mint, o) :
        pid \in ProgramIds, a \in Keys, mint \in Keys, o \in Keys }

InitializeMultisigInputs ==
    { InitializeMultisigParams(pid, ms, sg, m) :
        pid \in ProgramIds, ms \in Keys, sg \in SignerLists,
        m \in 0..(MaxSigners + 1) }

TransferInputs ==
    { TransferParams(pid, src, dst, auth, sg, amt) :
        pid \in ProgramIds, src \in Keys, dst \in Keys, auth \in Keys,
        sg \in SignerLists, amt \in Amounts }

CloseAccountInputs ==
    { CloseAccountParams(pid, a, dst, o, sg) :
        pid \in ProgramIds, a \in Keys, dst \in Keys, o \in Keys,
        sg \in SignerLists }

\* parameter structures handed to the encoders that have no logic
StubInputs ==
    { TransferParams(pid, k, k, k, sg, amt) :
        pid \in ProgramIds, k \in SignerKeys, sg \in { << >>, <<1>> },
        amt \in { <<0, 0, 0, 0>>, <<65535, 65535, 65535, 65535>> } }

\* data buffers of received instructions: empty, bare discriminants (known
\* and unknown), multisig buffers for every count, whole and truncated
\* transfer buffers, buffers with trailing bytes, mint buffers with every
\* kind of option flag
WireData ==
    { << >>, <<200>>, <<_TRANSFER, 1, 2>>, <<_CLOSE_ACCOUNT, 5>>,
      <<_INITIALIZE_MINT, 9>> }
    \cup { <<d>> : d \in 0..16 }
    \cup { <<_INITIALIZE_MULTISIG, k>> : k \in 0..(MaxKeys + 1) }
    \cup { <<_TRANSFER>> \o U64Bytes(a) :
             a \in { <<0, 0, 0, 0>>, <<65535, 65535, 65535, 65535>> } }
    \cup { <<_INITIALIZE_MINT, 9>> \o PublicKeyBytes(1)
             \o IntToBytesLE(o, OPTION_FLAG_WIDTH) \o PublicKeyBytes(f) :
             o \in {0, 1, 256}, f \in {0, 255} }

WireInstructions ==
    { TransactionInstruction(
          [i \in 1..Len(ks) |-> AccountMeta(ks[i], FALSE, FALSE)], pid, d) :
        ks \in SeqUpTo(SignerKeys, MaxKeys), pid \in ProgramIds,
        d \in WireData }

---------------------------------------------------------------------------
(* The state machine *)

Init ==
    /\ called = "none"
    /\ given = NoValue
    /\ instr = NoValue
    /\ origin = "none"
    /\ outcome = NoValue
    /\ caller = NoValue
    /\ heap = NoValue
    /\ threads = NoValue

\* nothing is at hand: the caller is about to build or receive an instruction
Idle == called = "none" /\ instr = NoValue

\* a call of the encoder `name` on p, made when nothing is at hand: the
\* instruction it returns becomes the instruction at hand
Encode(name, p, r) ==
    /\ called' = name
    /\ given' = p
    /\ outcome' = r
    /\ instr' = IF r.status = "ok" THEN r.value ELSE NoValue
    /\ origin' = IF r.status = "ok" THEN name ELSE "none"
    /\ UNCHANGED thread_vars

\* an instruction is at hand and no decoder has been called on it yet
Fresh == instr # NoValue /\ called \in {"none", origin}

\* a call of the decoder `name` on the instruction at hand
Decode(name, r) ==
    /\ Fresh
    /\ called' = name
    /\ outcome' = r
    /\ UNCHANGED <<given, instr, origin>>
    /\ UNCHANGED thread_vars

InitializeMint ==
    /\ Idle
    /\ \E p \in InitializeMintInputs :
        Encode("initialize_mint", p, initialize_mint(p))

InitializeAccount ==
    /\ Idle
    /\ \E p \in InitializeAccountInputs :
        Encode("initialize_account", p, initialize_account(p))

InitializeMultisig ==
    /\ Idle
    /\ \E p \in InitializeMultisigInputs :
        Encode("initialize_multisig", p, initialize_multisig(p))

Transfer ==
    /\ Idle
    /\ \E p \in TransferInputs : Encode("transfer", p, transfer(p))

CloseAccount ==
    /\ Idle
    /\ \E p \in CloseAccountInputs :
        Encode("close_account", p, close_account(p))

\* the encoder of a kind without logic, looked up by the kind's name
EncodeUnimplemented ==
    /\ Idle
    /\ \E k \in UnimplementedKinds, p \in StubInputs :
        Encode(EncoderName(k), p, instructions_call(EncoderName(k), p))

\* an instruction observed on the network
Receive ==
    /\ Idle
    /\ \E i \in WireInstructions :
        /\ called' = "none"
        /\ given' = NoValue
        /\ instr' = i
        /\ origin' = "wire"
        /\ outcome' = NoValue
        /\ UNCHANGED thread_vars

DecodeInitializeMint ==
    Decode("decode_initialize_mint", decode_initialize_mint(instr))

DecodeInitializeAccount ==
    Decode("decode_initialize_account", decode_initialize_account(instr))

DecodeInitializeMultisig ==
    Decode("decode_initialize_multisig", decode_initialize_multisig(instr))

DecodeTransfer ==
    Decode("decode_transfer", decode_transfer(instr))

DecodeCloseAccount ==
    Decode("decode_close_account", decode_close_account(instr))

\* the decoder of a kind without logic, looked up by the kind's name
DecodeUnimplemented ==
    /\ Fresh
    /\ \E k \in UnimplementedKinds :
        Decode(DecoderName(k), instructions_call(DecoderName(k), instr))

\* the decoder of kind k in solana/token_program.py, looked up by name
TokenProgramDecode ==
    /\ Fresh
    /\ \E k \in 0..15 :
        /\ called' = "token_program"
        /\ outcome' = [ token_program_call(TokenProgramDecoderName(k), instr)
                        EXCEPT !.value = [msg |-> @.msg, kind |-> k] ]
        /\ UNCHANGED <<given, instr, origin>>
        /\ UNCHANGED thread_vars

\* the layout lookup of solana/token_program.py on the instruction at hand
DecodeInstructionLayout ==
    Decode("decode_instruction_layout", decode_instruction_layout(instr))

\* the caller lets go of the instruction and of the last result; every
\* value of a call is local to it, so nothing else is left behind
Discard ==
    /\ ~Idle
    /\ called' = "none"
    /\ given' = NoValue
    /\ instr' = NoValue
    /\ origin' = "none"
    /\ outcome' = NoValue
    /\ UNCHANGED thread_vars

Next ==
    \/ InitializeMint
    \/ InitializeAccount
    \/ InitializeMultisig
    \/ Transfer
    \/ CloseAccount
    \/ EncodeUnimplemented
    \/ Receive
    \/ DecodeInitializeMint
    \/ DecodeInitializeAccount
    \/ DecodeInitializeMultisig
    \/ DecodeTransfer
    \/ DecodeCloseAccount
    \/ DecodeUnimplemented
    \/ TokenProgramDecode
    \/ DecodeInstructionLayout
    \/ Discard

Spec == Init /\ [][Next]_vars

---------------------------------------------------------------------------
(* Concurrent calls.  Two calls run at once on objects the caller hands to
   both of them: one signers list, passed inside the parameters of every
   encoder, and one instruction, passed to every decoder.  A list is an
   object on the heap and a call reads or appends to it one statement at a
   time, so the statements of the two calls interleave. *)

Threads == {1, 2}

\* the functions called concurrently: the encoders that go through
\* __add_signers, the encoder that copies the signers, and a decoder
ThreadFunctions ==
    {"transfer", "close_account", "initialize_multisig", "decode_transfer"}

ThreadEncoders == {"transfer", "close_account", "initialize_multisig"}

\* the amount every concurrent transfer carries
ThreadAmount == <<1, 0, 0, 65535>>

\* every call shares one list where each call builds its keys
keys_object_shared(t) == "keys1"

\* the list object that `keys = [...]` creates in call t: a new one per call
keys_object(t) == IF t = 1 THEN "keys1" ELSE "keys2"

\* a thread that is not inside a call
ThreadIdle ==
    [ fn |-> "none", pc |-> "idle", program_id |-> None, owner |-> None,
      i |-> 0, data |-> NoValue, result |-> NoValue ]

\* the instructions the caller hands to the decoders: the transfer of its
\* signers, the same with data of another instruction type, and one that is
\* two keys long
ThreadInstructions(signers) ==
    LET full == transfer(TransferParams(7, 1, 255, 0, signers,
                                        ThreadAmount)).value
    IN  { full,
          TransactionInstruction(full.keys, 7, <<_CLOSE_ACCOUNT>>),
          TransactionInstruction(SubSeq(full.keys, 1, 2), 7, full.data) }

InitThreads ==
    /\ called = "none"
    /\ given = NoValue
    /\ instr = NoValue
    /\ origin = "none"
    /\ outcome = NoValue
    /\ \E sg \in SignerLists :
         \E ins \in ThreadInstructions(sg) :
            /\ caller = [signers |-> sg, instruction |-> ins]
            /\ heap = [ signers |-> sg, ikeys |-> ins.keys,
                        keys1 |-> << >>, keys2 |-> << >> ]
    /\ threads = [t \in Threads |-> ThreadIdle]

\* the instruction object given to the decoders, as it is now
given_instruction ==
    TransactionInstruction(heap.ikeys, caller.instruction.program_id,
                           caller.instruction.data)

\* thread t enters one of the functions, with its own scalar parameters and
\* the caller's shared signers list or instruction
Call(t) ==
    /\ threads[t].pc = "idle"
    /\ \E fn \in ThreadFunctions, pid \in ProgramIds, owner \in {0, 255} :
         threads' = [threads EXCEPT ![t] =
                       [ ThreadIdle EXCEPT
                           !.fn = fn,
                           !.pc = IF fn \in ThreadEncoders THEN "build"
                                  ELSE "validate_keys",
                           !.program_id = pid,
                           !.owner = owner ]]
    /\ UNCHANGED <<caller, heap>>
    /\ UNCHANGED call_vars

\* transfer and close_account: build the data and the list of the two fixed
\* keys
BuildKeys(t) ==
    /\ threads[t].pc = "build"
    /\ threads[t].fn \in {"transfer", "close_account"}
    /\ heap' = [heap EXCEPT ![keys_object(t)] =
                  IF threads[t].fn = "transfer"
                  THEN << AccountMeta(1, FALSE, TRUE),
                          AccountMeta(255, FALSE, FALSE) >>
                  ELSE << AccountMeta(1, FALSE, TRUE),
                          AccountMeta(255, FALSE, TRUE) >>]
    /\ threads' = [threads EXCEPT
                     ![t].pc = "add_signers",
                     ![t].data =
                        IF threads[t].fn = "transfer"
                        THEN INSTRUCTIONS_LAYOUT_build(
                                 InstructionType.Transfer,
                                 [amount |-> ThreadAmount])
                        ELSE INSTRUCTIONS_LAYOUT_build(
                                 InstructionType.CloseAccount, NoValue)]
    /\ UNCHANGED caller
    /\ UNCHANGED call_vars

\* initialize_multisig: build the data and the list of the two fixed keys
BuildMultisigKeys(t) ==
    /\ threads[t].pc = "build"
    /\ threads[t].fn = "initialize_multisig"
    /\ heap' = [heap EXCEPT ![keys_object(t)] =
                  << AccountMeta(threads[t].owner, FALSE, TRUE),
                     AccountMeta(SYSVAR_RENT_PUBKEY, FALSE, FALSE) >>]
    /\ threads' = [threads EXCEPT
                     ![t].pc = "for_multisig_signer",
                     ![t].i = 1,
                     ![t].data = INSTRUCTIONS_LAYOUT_build(
                                     InstructionType.InitializeMultisig,
                                     [m |-> 1])]
    /\ UNCHANGED caller
    /\ UNCHANGED call_vars

\* initialize_multisig: one turn of the loop over the shared signers list
ForMultisigSigner(t) ==
    /\ threads[t].pc = "for_multisig_signer"
    /\ IF threads[t].i <= Len(heap.signers)
       THEN /\ heap' = [heap EXCEPT ![keys_object(t)] =
                          Append(@, AccountMeta(heap.signers[threads[t].i],
                                                FALSE, FALSE))]
            /\ threads' = [threads EXCEPT ![t].i = @ + 1]
       ELSE /\ threads' = [threads EXCEPT ![t].pc = "return"]
            /\ UNCHANGED heap
    /\ UNCHANGED caller
    /\ UNCHANGED call_vars

\* __add_signers: test the shared signers list and append the owner
TestSigners(t) ==
    /\ threads[t].pc = "add_signers"
    /\ IF Len(heap.signers) # 0
       THEN /\ heap' = [heap EXCEPT ![keys_object(t)] =
                          Append(@, AccountMeta(threads[t].owner,
                                                FALSE, FALSE))]
            /\ threads' = [threads EXCEPT ![t].pc = "for_signer",
                                          ![t].i = 1]
       ELSE /\ heap' = [heap EXCEPT ![keys_object(t)] =
                          Append(@, AccountMeta(threads[t].owner,
                                                TRUE, FALSE))]
            /\ threads' = [threads EXCEPT ![t].pc = "return"]
    /\ UNCHANGED caller
    /\ UNCHANGED call_vars

\* __add_signers: one turn of the loop over the shared signers list
ForSigner(t) ==
    /\ threads[t].pc = "for_signer"
    /\ IF threads[t].i <= Len(heap.signers)
       THEN /\ heap' = [heap EXCEPT ![keys_object(t)] =
                          Append(@, AccountMeta(heap.signers[threads[t].i],
                                                TRUE, FALSE))]
            /\ threads' = [threads EXCEPT ![t].i = @ + 1]
       ELSE /\ threads' = [threads EXCEPT ![t].pc = "return"]
            /\ UNCHANGED heap
    /\ UNCHANGED caller
    /\ UNCHANGED call_vars

\* an encoder returns the instruction that holds its keys list
Return(t) ==
    /\ threads[t].pc = "return"
    /\ threads' = [threads EXCEPT
                     ![t].pc = "done",
                     ![t].result = [keys |-> keys_object(t)]]
    /\ UNCHANGED <<caller, heap>>
    /\ UNCHANGED call_vars

\* decode_transfer: count the keys of the shared instruction
ValidateKeys(t) ==
    /\ threads[t].pc = "validate_keys"
    /\ LET keys_ok == validate_instruction_keys(given_instruction, 3)
       IN  threads' = [threads EXCEPT
                         ![t].pc = IF keys_ok.status = "ok" THEN "parse"
                                   ELSE "done",
                         ![t].result = IF keys_ok.status = "ok" THEN @
                                       ELSE keys_ok]
    /\ UNCHANGED <<caller, heap>>
    /\ UNCHANGED call_vars

\* decode_transfer: parse the data and check the instruction type
ParseData(t) ==
    /\ threads[t].pc = "parse"
    /\ LET parsed_data == INSTRUCTIONS_LAYOUT_parse(given_instruction.data)
           type_ok == IF parsed_data.status # "ok" THEN parsed_data
                      ELSE validate_instruction_type(
                               parsed_data.value, InstructionType.Transfer)
       IN  threads' = [threads EXCEPT
                         ![t].pc = IF type_ok.status = "ok"
                                   THEN "reconstruct" ELSE "done",
                         ![t].data = IF type_ok.status = "ok"
                                     THEN parsed_data.value ELSE @,
                         ![t].result = IF type_ok.status = "ok" THEN @
                                       ELSE type_ok]
    /\ UNCHANGED <<caller, heap>>
    /\ UNCHANGED call_vars

\* decode_transfer: read the keys of the shared instruction into new
\* parameters
Reconstruct(t) ==
    /\ threads[t].pc = "reconstruct"
    /\ threads' = [threads EXCEPT
                     ![t].pc = "done",
                     ![t].result = Ok(TransferParams(
                         given_instruction.program_id,
                         heap.ikeys[1].pubkey,
                         heap.ikeys[2].pubkey,
                         heap.ikeys[3].pubkey,
                         Pubkeys(PySliceFrom(heap.ikeys, 3)),
                         threads[t].data.args.amount))]
    /\ UNCHANGED <<caller, heap>>
    /\ UNCHANGED call_vars

NextThreads ==
    \E t \in Threads :
        \/ Call(t)
        \/ BuildKeys(t)
        \/ BuildMultisigKeys(t)
        \/ ForMultisigSigner(t)
        \/ TestSigners(t)
        \/ ForSigner(t)
        \/ Return(t)
        \/ ValidateKeys(t)
        \/ ParseData(t)
        \/ Reconstruct(t)

SpecThreads == InitThreads /\ [][NextThreads]_vars

\* what the call of thread t has returned, as its caller sees it now: an
\* instruction shows the present content of the keys list it holds
Returned(t) ==
    IF threads[t].fn \in ThreadEncoders
    THEN Ok(TransactionInstruction(heap[threads[t].result.keys],
                                   threads[t].program_id, threads[t].data))
    ELSE threads[t].result

\* what the call of thread t returns when it runs alone on the inputs the
\* caller gave it
RunAlone(t) ==
    CASE threads[t].fn = "transfer" ->
           transfer(TransferParams(threads[t].program_id, 1, 255,
                                   threads[t].owner, caller.signers,
                                   ThreadAmount))
      [] threads[t].fn = "close_account" ->
           close_account(CloseAccountParams(threads[t].program_id, 1, 255,
                                            threads[t].owner,
                                            caller.signers))
      [] threads[t].fn = "initialize_multisig" ->
           initialize_multisig(InitializeMultisigParams(
               threads[t].program_id, threads[t].owner, caller.signers, 1))
      [] threads[t].fn = "decode_transfer" ->
           decode_transfer(caller.instruction)

---------------------------------------------------------------------------
(* Properties *)

\* the decoder at hand was called on an instruction built by encoder `enc`
Decoded(enc, dec) == origin = enc /\ called = dec

\* C1: round trip of the authority+signers kinds and of InitializeAccount:
\* decode_transfer(transfer(p)) = p for every amount (0 and 2^64-1 included)
\* and every signer list (empty or not), decode_close_account(
\* close_account(q)) = q, decode_initialize_account(initialize_account(r)) = r
C1_RoundTrip ==
    /\ Decoded("transfer", "decode_transfer") => outcome = Ok(given)
    /\ Decoded("close_account", "decode_close_account") => outcome = Ok(given)
    /\ Decoded("initialize_account", "decode_initialize_account")
           => outcome = Ok(given)

\* a transfer of 2^64-1 tokens with a full signer list came back whole
C1_Witness ==
    /\ Decoded("transfer", "decode_transfer")
    /\ given.amount = <<65535, 65535, 65535, 65535>>
    /\ Len(given.signers) = MaxSigners
    /\ outcome.status = "ok"
    /\ outcome.value.signers = given.signers
    /\ outcome.value.amount = given.amount

\* C2: round trip of InitializeMultisig: whenever m is not larger than the
\* number of signers (signer list empty or not),
\* decode_initialize_multisig(initialize_multisig(p)) = p
C2_MultisigRoundTrip ==
    ( /\ Decoded("initialize_multisig", "decode_initialize_multisig")
      /\ given.m <= Len(given.signers) )
        => outcome = Ok(given)

\* C3: multisig sizing: decode_initialize_multisig on a buffer with m = k
\* succeeds only when there are at least 2 + k account references, and the
\* signers it returns are exactly the last k references in order (none for
\* k = 0)
C3_MultisigSizing ==
    ( called = "decode_initialize_multisig" /\ outcome.status = "ok" )
        => LET n == Len(instr.keys)
               k == instr.data[2]
           IN  /\ n >= 2 + k
               /\ outcome.value.m = k
               /\ outcome.value.signers
                      = Pubkeys(SubSeq(instr.keys, n - k + 1, n))

\* C4: optional field round trip of InitializeMint: without a freeze
\* authority the option flag is zero and the 32-byte slot after it is all
\* zero, and decoding yields freeze_authority = None; with one the flag is 1,
\* the slot holds the address, and decode_initialize_mint(initialize_mint(p))
\* = p for every decimals
C4_OptionalFreezeAuthority ==
    origin = "initialize_mint"
        => LET flag_at == 2 + 1 + PUBLIC_KEY_LENGTH
               slot_at == flag_at + OPTION_FLAG_WIDTH
               flag == SubSeq(instr.data, flag_at, slot_at - 1)
               slot == SubSeq(instr.data, slot_at,
                              slot_at + PUBLIC_KEY_LENGTH - 1)
           IN  /\ Len(instr.data) = slot_at + PUBLIC_KEY_LENGTH - 1
               /\ given.freeze_authority = None
                      => /\ \A i \in 1..OPTION_FLAG_WIDTH : flag[i] = 0
                         /\ \A i \in 1..PUBLIC_KEY_LENGTH : slot[i] = 0
               /\ given.freeze_authority # None
                      => /\ BytesToIntLE(flag) = 1
                         /\ PublicKey(slot) = given.freeze_authority
               /\ called = "decode_initialize_mint"
                      => /\ outcome = Ok(given)
                         /\ given.freeze_authority = None
                                => outcome.value.freeze_authority = None

\* a mint without freeze authority and with 255 decimals came back with None
C4_Witness ==
    /\ Decoded("initialize_mint", "decode_initialize_mint")
    /\ given.freeze_authority = None
    /\ given.decimals = 255
    /\ outcome.status = "ok"
    /\ outcome.value.freeze_authority = None

\* C5: authority convention of transfer and close_account: after the two
\* fixed references, an empty signer list appends the authority alone, as a
\* signer that is not writable; N >= 1 signers append the authority as neither
\* signer nor writable, then exactly the N signers in input order, each a
\* signer that is not writable
C5_AuthorityConvention ==
    origin \in {"transfer", "close_account"}
        => LET authority == IF origin = "transfer" THEN given.authority
                            ELSE given.owner
               n == Len(given.signers)
               keys == instr.keys
           IN  /\ keys[3].pubkey = authority
               /\ ~keys[3].is_writable
               /\ keys[3].is_signer <=> (n = 0)
               /\ Len(keys) = 3 + n
               /\ \A i \in 1..n :
                      /\ keys[3 + i].pubkey = given.signers[i]
                      /\ keys[3 + i].is_signer
                      /\ ~keys[3 + i].is_writable

\* close_account with a full signer list: the owner does not sign
C5_Witness ==
    /\ origin = "close_account"
    /\ Len(given.signers) = MaxSigners
    /\ ~instr.keys[3].is_signer
    /\ instr.keys[Len(instr.keys)].is_signer

\* C6: positional account contract: transfer starts with source (writable)
\* and destination (writable), initialize_mint produces exactly mint
\* (writable) and the rent sysvar (read-only), close_account starts with
\* account (writable) and destination (writable); the fixed entries never sign
C6_PositionalContract ==
    /\ origin = "transfer"
           => /\ instr.keys[1] = AccountMeta(given.source, FALSE, TRUE)
              /\ instr.keys[2] = AccountMeta(given.destination, FALSE, TRUE)
              /\ Len(instr.keys) = 3 + Len(given.signers)
    /\ origin = "initialize_mint"
           => instr.keys = << AccountMeta(given.mint, FALSE, TRUE),
                              AccountMeta(SYSVAR_RENT_PUBKEY, FALSE, FALSE) >>
    /\ origin = "close_account"
           => /\ instr.keys[1] = AccountMeta(given.account, FALSE, TRUE)
              /\ instr.keys[2] = AccountMeta(given.destination, FALSE, TRUE)
              /\ Len(instr.keys) = 3 + Len(given.signers)

\* C7: discriminant stability: the first data byte an implemented encoder
\* produces is its kind's instruction index
C7_DiscriminantStability ==
    /\ origin = "initialize_mint" => instr.data[1] = _INITIALIZE_MINT
    /\ origin = "initialize_account" => instr.data[1] = _INITIALIZE_ACCOUNT
    /\ origin = "initialize_multisig" => instr.data[1] = _INITIALIZE_MULTISIG
    /\ origin = "transfer" => instr.data[1] = _TRANSFER
    /\ origin = "close_account" => instr.data[1] = _CLOSE_ACCOUNT

\* close_account was called and its data starts with 9
C7_Witness ==
    /\ called = "close_account"
    /\ outcome.status = "ok"
    /\ outcome.value.data[1] = _CLOSE_ACCOUNT

C9_KeyCountRejection ==
    LET minimum ==
            [ decode_initialize_mint |-> 2,
              decode_initialize_account |-> 4,
              decode_transfer |-> 3,
              decode_close_account |-> 3 ]
    IN  /\ \A dec \in DOMAIN minimum :
               ( called = dec /\ Len(instr.keys) < minimum[dec] )
                   => outcome = Raise("InvalidAccountCount",
                                      [ found |-> Len(instr.keys),
                                        expected |-> minimum[dec] ])
        /\ ( /\ called = "decode_initialize_multisig"
             /\ Len(instr.data) >= 2
             /\ instr.data[1] = _INITIALIZE_MULTISIG
             /\ Len(instr.keys) < 2 + instr.data[2] )
               => outcome = Raise("InvalidAccountCount",
                                  [ found |-> Len(instr.keys),
                                    expected |-> 2 + instr.data[2] ])

\* a whole Transfer buffer with two account references (no authority) was
\* rejected for its account count
C9_Witness ==
    /\ called = "decode_transfer"
    /\ Len(instr.data) = 9
    /\ instr.data[1] = _TRANSFER
    /\ Len(instr.keys) = 2
    /\ outcome.status = "InvalidAccountCount"

\* C10: unsupported path: for each kind without logic both the encoder and
\* the decoder of spl/token/instructions.py, and for each of the 16 kinds the
\* decoder of solana/token_program.py, exist and raise the not-implemented
\* failure for every input
C10_UnsupportedPath ==
    /\ \A k \in UnimplementedKinds :
           called \in { EncoderName(k), DecoderName(k) }
               => outcome.status = "NotImplementedError"
    /\ called = "token_program" => outcome.status = "NotImplementedError"

\* C11: the first data byte alone selects the layout: whenever the data of
\* an instruction starts with a byte d in 0..15, decode_instruction_layout
\* returns the layout of kind d, whatever bytes follow
C11_FirstByteSelectsLayout ==
    ( /\ called = "decode_instruction_layout"
      /\ Len(instr.data) >= 1
      /\ instr.data[1] \in 0..15 )
        => outcome = Ok(TOKEN_INSTRUCTION_LAYOUTS[instr.data[1] + 1])

\* C16: the registry is total: TOKEN_INSTRUCTION_LAYOUTS has one entry for
\* each of the 16 discriminants, the entry at position d has idx = d, and
\* decode_instruction_layout returns the entry of the type index its first
\* four bytes spell when that index is in 0..15 and raises the
\* unknown-instruction error for every other index
C16_RegistryTotal ==
    /\ Len(TOKEN_INSTRUCTION_LAYOUTS) = 16
    /\ \A d \in 0..15 : TOKEN_INSTRUCTION_LAYOUTS[d + 1].idx = d
    /\ called = "decode_instruction_layout"
           => LET b == instr.data
                  low == IF Len(b) = 0 THEN 0 ELSE b[1]
                  high_zero == \A i \in 2..4 : i <= Len(b) => b[i] = 0
              IN  IF high_zero /\ low \in 0..15
                  THEN /\ outcome.status = "ok"
                       /\ outcome.value.idx = low
                       /\ outcome.value = TOKEN_INSTRUCTION_LAYOUTS[low + 1]
                  ELSE /\ outcome.status = "ValueError"
                       /\ outcome.value.msg = "unknown transaction instruction"

\* the index just past the table was refused
C16_Witness ==
    /\ called = "decode_instruction_layout"
    /\ instr.data = <<16>>
    /\ outcome.status = "ValueError"

\* C15: decoding an InitializeMint buffer: a zero option flag yields
\* freeze_authority = None whatever the 32-byte slot holds, a non-zero flag
\* yields the address in the slot; mint is the first account reference, and
\* mint_authority and decimals are the data fields
C15_DecodeInitializeMint ==
    ( called = "decode_initialize_mint" /\ outcome.status = "ok" )
        => LET authority_at == 3
               flag_at == authority_at + PUBLIC_KEY_LENGTH
               slot_at == flag_at + OPTION_FLAG_WIDTH
               flag == SubSeq(instr.data, flag_at, slot_at - 1)
               slot == SubSeq(instr.data, slot_at,
                              slot_at + PUBLIC_KEY_LENGTH - 1)
               decoded == outcome.value
           IN  /\ (\A i \in 1..OPTION_FLAG_WIDTH : flag[i] = 0)
                      => decoded.freeze_authority = None
               /\ (\E i \in 1..OPTION_FLAG_WIDTH : flag[i] # 0)
                      => decoded.freeze_authority = PublicKey(slot)
               /\ decoded.mint = instr.keys[1].pubkey
               /\ decoded.mint_authority
                      = PublicKey(SubSeq(instr.data, authority_at,
                                         flag_at - 1))
               /\ decoded.decimals = instr.data[2]
               /\ decoded.program_id = instr.program_id

\* a received mint buffer with a zero flag and a non-zero slot decoded to
\* freeze_authority = None
C15_Witness ==
    /\ origin = "wire"
    /\ called = "decode_initialize_mint"
    /\ outcome.status = "ok"
    /\ instr.data[Len(instr.data)] = 255
    /\ outcome.value.freeze_authority = None

C12_TruncatedRejected ==
    LET expected ==
            [ decode_initialize_mint |-> _INITIALIZE_MINT,
              decode_initialize_account |-> _INITIALIZE_ACCOUNT,
              decode_initialize_multisig |-> _INITIALIZE_MULTISIG,
              decode_transfer |-> _TRANSFER,
              decode_close_account |-> _CLOSE_ACCOUNT ]
    IN  /\ \A dec \in DOMAIN expected :
               ( called = dec
                 /\ Len(instr.data) < 1 + LayoutWidth(expected[dec]) )
                   => outcome.status = "TruncatedInstruction"
        /\ ( called = "decode_close_account"
             /\ instr.data = <<_CLOSE_ACCOUNT>> )
               => outcome.status = "TruncatedInstruction"

\* C12 amended: a data buffer that is empty, or shorter than the
\* discriminant plus the field width of the kind its first byte names, makes
\* a decoder fail with the truncated-instruction error once the decoder's
\* key-count check has passed (decode_initialize_multisig parses first, so
\* always); with fewer account references than the fixed minimum the
\* invalid-account-count error is raised instead.  A CloseAccount buffer
\* that holds the discriminant alone is complete: decode_close_account
\* succeeds on it when there are at least 3 account references
C12_Truncation ==
    LET minimum ==
            [ decode_initialize_mint |-> 2,
              decode_initialize_account |-> 4,
              decode_initialize_multisig |-> 0,
              decode_transfer |-> 3,
              decode_close_account |-> 3 ]
        short == \/ Len(instr.data) = 0
                 \/ Len(instr.data) < 1 + LayoutWidth(instr.data[1])
    IN  /\ \A dec \in DOMAIN minimum :
               ( called = dec /\ short )
                   => IF Len(instr.keys) < minimum[dec]
                      THEN outcome.status = "InvalidAccountCount"
                      ELSE outcome.status = "TruncatedInstruction"
        /\ ( called = "decode_close_account"
             /\ instr.data = <<_CLOSE_ACCOUNT>>
             /\ Len(instr.keys) >= 3 )
               => outcome.status = "ok"

\* decode_transfer met a Transfer buffer cut after two amount bytes, with
\* enough account references, and reported the truncation
C12_Witness ==
    /\ called = "decode_transfer"
    /\ instr.data = <<_TRANSFER, 1, 2>>
    /\ Len(instr.keys) >= 3
    /\ outcome.status = "TruncatedInstruction"

\* C14: under every interleaving of two concurrent calls, the caller's
\* signers list and the keys of the instruction given to the decoders keep
\* the content the caller gave them, and every call that has returned shows
\* the result the same call returns when it runs alone.
C14_Purity ==
    /\ heap.signers = caller.signers
    /\ heap.ikeys = caller.instruction.keys
    /\ \A t \in Threads :
          threads[t].pc = "done" => Returned(t) = RunAlone(t)

\* a transfer and a decode_transfer have both returned a value while sharing
\* a signers list that is not empty
C14_Witness ==
    /\ Len(caller.signers) > 0
    /\ threads[1].pc = "done"
    /\ threads[2].pc = "done"
    /\ threads[1].fn = "transfer"
    /\ threads[2].fn = "decode_transfer"
    /\ threads[2].result.status = "ok"
    /\ Len(threads[2].result.value.signers) > 0

===========================================================================
